---------------------------- MODULE Spec2Model ----------------------------
(***************************************************************************)
(* A model of pants-gen: the password specification (length plus a set of  *)
(* (character class, count interval) constraints), its generation          *)
(* algorithm, and the textual codec of specs, intervals and classes.       *)
(*                                                                         *)
(* A text is a sequence of characters; a character is a one-element string *)
(* ("a", "/", ...), except the multi-byte characters named in MultiByte.   *)
(* Option and Result values are records tagged Some/None and Ok/Err.       *)
(***************************************************************************)
EXTENDS Integers, Sequences, FiniteSets, TLC

VARIABLES
    pc,          \* position of the running operation
    spec,        \* the PasswordSpec at hand: [length, choices]
    todo,        \* generate: constraints of the clone not yet iterated
    cur,         \* generate: the constraint whose get_required() runs
    res,         \* get_required: the characters it has drawn so far
    active,      \* generate: the Choices that collects the drained constraints
    pool,        \* generate: the Vec of still active constraints
    characters,  \* generate: the output buffer
    remaining,   \* generate: length - characters.len()
    iter,        \* generate: iterations of the fill loop done
    result,      \* generate: the returned Option<String>
    text,        \* codec: the text given to a parser / produced by Display
    parsed,      \* codec: what the parser returned for text
    parsed2,     \* codec: what the parser returned for text followed by "//"
    origin,      \* codec: where text comes from: a built spec, the grammar, typed
    last,        \* builder: per class, the intervals inserted for it, in order
    calls        \* builder: the number of insertions made so far

vars == <<pc, spec, todo, cur, res, active, pool, characters, remaining,
          iter, result, text, parsed, parsed2, origin, last, calls>>


---------------------------------------------------------------------------
(* Bounds of the model *)

\* largest count used in an interval bound
MaxCount == 1
\* largest password length generated
MaxLength == 2
\* most constraints held by a generated spec
MaxChoices == 2
\* the random generator draws one of the first RngBound characters of a class
RngBound == 2
\* longest text enumerated over an alphabet
MaxTextLen == 4
\* most constraint groups in an enumerated spec text
MaxGroups == 2
\* most insertions into one spec
MaxCalls == 2

---------------------------------------------------------------------------
(* Machine integers *)

\* usize::MAX. The model's machine word is 31 bits wide (the widest TLC's
\* integers offer); every sum below is computed without exceeding it.
UsizeMax == 2147483647
\* usize::MIN
UsizeMin == 0

\* mutant: the sum wraps around past usize::MAX
wrapping_add(a, b) == IF a > UsizeMax - b THEN a - (UsizeMax - b) - 1 ELSE a + b

saturating_add(a, b) == IF a > UsizeMax - b THEN UsizeMax ELSE a + b

None == [tag |-> "None"]
Some(v) == [tag |-> "Some", val |-> v]
Ok(v) == [tag |-> "Ok", val |-> v]
Err(e) == [tag |-> "Err", err |-> e]

---------------------------------------------------------------------------
(* interval.rs: Interval *)

Interval(min, max) == [min |-> min, max |-> max]

\* mutant: bounds in the wrong order are swapped, not refused
Interval_new_Swap(min, max) ==
    IF min <= max THEN Some(Interval(min, max)) ELSE Some(Interval(max, min))

Interval_new(min, max) == IF min <= max THEN Some(Interval(min, max)) ELSE None

Interval_at_least(size) == Interval(size, UsizeMax)

Interval_at_most(size) == Interval(UsizeMin, size)

Interval_exactly(size) == Interval(size, size)

Interval_safe(a, b) == IF a <= b THEN Interval(a, b) ELSE Interval(b, a)

---------------------------------------------------------------------------
(* password.rs: CharStyle *)

Upper == [kind |-> "Upper", lit |-> <<>>]
Lower == [kind |-> "Lower", lit |-> <<>>]
Number == [kind |-> "Number", lit |-> <<>>]
Symbol == [kind |-> "Symbol", lit |-> <<>>]
Custom(v) == [kind |-> "Custom", lit |-> v]

UpperChars ==
    <<"A", "B", "C", "D", "E", "F", "G", "H", "I", "J", "K", "L", "M",
      "N", "O", "P", "Q", "R", "S", "T", "U", "V", "W", "X", "Y", "Z">>
LowerChars ==
    <<"a", "b", "c", "d", "e", "f", "g", "h", "i", "j", "k", "l", "m",
      "n", "o", "p", "q", "r", "s", "t", "u", "v", "w", "x", "y", "z">>
NumberChars == <<"1", "2", "3", "4", "5", "6", "7", "8", "9">>
SymbolChars ==
    <<"!", "@", "%", "^", "&", "*", "-", "_", "=", "+", ":", ";", ",", ".",
      "?", "~">>

to_charset(chars) ==
    CASE chars.kind = "Upper" -> UpperChars
      [] chars.kind = "Lower" -> LowerChars
      [] chars.kind = "Number" -> NumberChars
      [] chars.kind = "Symbol" -> SymbolChars
      [] OTHER -> chars.lit

Range(s) == {s[i] : i \in 1..Len(s)}

---------------------------------------------------------------------------
(* password.rs: Choice *)

Choice(min, max, chars) == [min |-> min, max |-> max, chars |-> chars]

Choice_from_interval(interval, chars) == Choice(interval.min, interval.max, chars)

Choice_exactly(count, chars) == Choice(count, count, chars)

Choice_at_least(count, chars) == Choice(count, UsizeMax, chars)

Choice_at_most(count, chars) == Choice(UsizeMin, count, chars)

\* PartialEq for Choice: only the character class is compared
Choice_eq(a, b) == a.chars = b.chars

\* mutant: a constraint stays active with its max used up
Choice_active_Always(c) == c.max >= 0

Choice_active(c) == c.max > 0

\* mutant: the last required character is not drawn
Choice_required_OffByOne(c) == c.min > 1

Choice_required(c) == c.min > 0

\* thread_rng's pick from a character list: None from an empty list
RngPicks(cs) ==
    IF Len(cs) = 0 THEN {None}
    ELSE {Some(cs[k]) : k \in 1..(IF Len(cs) < RngBound THEN Len(cs) ELSE RngBound)}

\* Iterator::next for Choice: the outcomes [choice, item] of one call
Choice_next(c) ==
    IF Choice_active(c)
    THEN {[choice |-> Choice(IF c.min > 0 THEN c.min - 1 ELSE c.min,
                             IF c.max > 0 THEN c.max - 1 ELSE c.max,
                             c.chars),
           item |-> p] : p \in RngPicks(to_charset(c.chars))}
    ELSE {[choice |-> c, item |-> None]}

---------------------------------------------------------------------------
(* password.rs: Choices, a HashSet<Choice> under Choice's equality *)

Choices_new == {}

\* mutant: HashSet::insert, which keeps an equal element already there
push_Insert(choices, choice) ==
    IF \E c \in choices : c.chars = choice.chars THEN choices ELSE choices \cup {choice}

\* HashSet::replace: the equal element, if any, gives way to the new one
push(choices, choice) ==
    {c \in choices : ~Choice_eq(c, choice)} \cup {choice}

---------------------------------------------------------------------------
(* password.rs: PasswordSpec *)

\* HashSet::insert: an equal element already in the set stays, the new one
\* is dropped
insert(choices, choice) ==
    IF \E c \in choices : Choice_eq(c, choice) THEN choices ELSE choices \cup {choice}

RECURSIVE Extend(_, _)
\* HashSet::extend: the elements are inserted one after the other
Extend(choices, value) ==
    IF Len(value) = 0 THEN choices
    ELSE Extend(insert(choices, Head(value)), Tail(value))

\* impl From<Vec<Choice>> for Choices: HashSet::from_iter(value)
Choices_from(value) == Extend({}, value)

PasswordSpec(length, choices) == [length |-> length, choices |-> choices]

PasswordSpec_new == PasswordSpec(32, Choices_new)

PasswordSpec_default ==
    PasswordSpec(32,
        push(push(push(push(Choices_new, Choice_at_least(1, Upper)),
                       Choice_at_least(1, Lower)),
                  Choice_at_least(1, Number)),
             Choice_at_least(1, Symbol)))

\* mutant: setting the length starts the constraints afresh
length_Fresh(s, n) == PasswordSpec(n, Choices_new)

length(s, n) == PasswordSpec(n, s.choices)

include(s, choice) == PasswordSpec(s.length, push(s.choices, choice))

RECURSIVE SatSum(_, _)
\* the loop of check(): a saturating sum of one field over the set
SatSum(S, field) ==
    IF S = {} THEN 0
    ELSE LET c == CHOOSE x \in S : TRUE
         IN saturating_add(SatSum(S \ {c}, field),
                           IF field = "min" THEN c.min ELSE c.max)

\* mutant: the length is not compared with the sum of the max
check_NoUpper(s) == SatSum(s.choices, "min") <= s.length

check(s) ==
    LET min_length == SatSum(s.choices, "min")
        max_length == SatSum(s.choices, "max")
    IN min_length <= s.length /\ s.length <= max_length

Perms(S) ==
    {f \in [1..Cardinality(S) -> S] : \A i, j \in 1..Cardinality(S) : f[i] = f[j] => i = j}

\* mutant: the element stays where it is
RemoveAt_Truncate(s, k) == SubSeq(s, 1, k - 1)

RemoveAt(s, k) == [i \in 1..(Len(s) - 1) |-> IF i < k THEN s[i] ELSE s[i + 1]]


---------------------------------------------------------------------------
(* Texts: str and char of the standard library, as the parsers use them *)

\* an abort of the call (a panic), as against a returned Err
Panic == [tag |-> "Panic"]

\* characters of more than one byte in UTF-8: e-acute, and the digit three
\* of the Arabic-Indic digits (numeric, two bytes)
MultiByte == {"U+00E9", "U+0663"}

RECURSIVE ByteLen(_)
\* str::len: the length in bytes
ByteLen(s) ==
    IF Len(s) = 0 THEN 0
    ELSE (IF Head(s) \in MultiByte THEN 2 ELSE 1) + ByteLen(Tail(s))

DigitChars == <<"0", "1", "2", "3", "4", "5", "6", "7", "8", "9">>

AsciiDigits == Range(DigitChars)

DigitVal(c) == (CHOOSE i \in 1..10 : DigitChars[i] = c) - 1

\* char::is_numeric
is_numeric(c) == c \in AsciiDigits \cup {"U+0663"}

\* char::is_whitespace
is_whitespace(c) == c \in {" ", "\t"}

RECURSIVE trim_start(_)
trim_start(s) ==
    IF Len(s) > 0 /\ is_whitespace(Head(s)) THEN trim_start(Tail(s)) ELSE s

RECURSIVE trim_end(_)
trim_end(s) ==
    IF Len(s) > 0 /\ is_whitespace(s[Len(s)])
    THEN trim_end(SubSeq(s, 1, Len(s) - 1))
    ELSE s

trim(s) == trim_end(trim_start(s))

ends_with(s, suffix) ==
    /\ Len(s) >= Len(suffix)
    /\ SubSeq(s, Len(s) - Len(suffix) + 1, Len(s)) = suffix

\* stack[..stack.len() - sep.len()]
DropSuffix(s, suffix) == SubSeq(s, 1, Len(s) - Len(suffix))

RECURSIVE AccumulateDigits(_, _, _)
\* the digit loop of usize::from_str: None on a character that is no ASCII
\* digit and on a value above usize::MAX
AccumulateDigits(d, k, acc) ==
    IF k > Len(d) THEN Some(acc)
    ELSE IF d[k] \notin AsciiDigits THEN None
    ELSE IF acc > (UsizeMax - DigitVal(d[k])) \div 10 THEN None
    ELSE AccumulateDigits(d, k + 1, acc * 10 + DigitVal(d[k]))

\* str::parse::<usize>: an optional '+', then one or more ASCII digits
ParseUsize(s) ==
    IF Len(s) = 0 THEN None
    ELSE LET d == IF Head(s) = "+" THEN Tail(s) ELSE s
         IN IF Len(d) = 0 THEN None ELSE AccumulateDigits(d, 1, 0)

RECURSIVE ToDecimal(_)
\* Display for usize
ToDecimal(n) ==
    IF n < 10 THEN <<DigitChars[n + 1]>>
    ELSE ToDecimal(n \div 10) \o <<DigitChars[(n % 10) + 1]>>

---------------------------------------------------------------------------
(* interval.rs: impl FromStr for Interval *)

RECURSIVE IntervalScan(_, _, _, _, _)
\* for (i, c) in s.chars().enumerate(): k = i + 1 is the position of c
IntervalScan(s, k, first, second, style) ==
    IF k > Len(s) THEN [tag |-> "End", first |-> first, second |-> second, style |-> style]
    ELSE LET c == s[k]
         IN IF style = "Exact"
            THEN IF is_numeric(c)
                 THEN IntervalScan(s, k + 1, Append(first, c), second, style)
                 ELSE IF c = "+" /\ k = ByteLen(s)
                 THEN IntervalScan(s, k + 1, first, second, "AtLeast")
                 ELSE IF c = "-" /\ k = ByteLen(s)
                 THEN IntervalScan(s, k + 1, first, second, "AtMost")
                 ELSE IF c = "-"
                 THEN IntervalScan(s, k + 1, first, second, "Range")
                 ELSE Err("ImproperFormat")
            ELSE IF style = "Range"
            THEN IF is_numeric(c)
                 THEN IntervalScan(s, k + 1, first, Append(second, c), style)
                 ELSE Err("ImproperFormat")
            ELSE IntervalScan(s, k + 1, first, second, style)

\* mutant: the bounds of a range are not compared
IntervalOfRange_Unchecked(a, b) == Ok(Interval(a, b))

\* Style::Range: if a <= b { Ok(..) } else { Err(BadBounds(a, b)) }
IntervalOfRange(a, b) == IF a <= b THEN Ok(Interval(a, b)) ELSE Err("BadBounds")

Interval_from_str(text0) ==
    LET s == trim(text0)
        scan == IntervalScan(s, 1, <<>>, <<>>, "Exact")
    IN IF scan.tag = "Err" THEN scan
       ELSE LET n == ParseUsize(scan.first)
                b == ParseUsize(scan.second)
            IN CASE scan.style = "Exact" ->
                      IF n = None THEN Err("ImproperFormat")
                      ELSE Ok(Interval(n.val, n.val))
                 [] scan.style = "AtLeast" ->
                      IF n = None THEN Err("ImproperFormat")
                      ELSE Ok(Interval(n.val, UsizeMax))
                 [] scan.style = "AtMost" ->
                      IF n = None THEN Err("ImproperFormat")
                      ELSE Ok(Interval(UsizeMin, n.val))
                 [] OTHER ->
                      IF n = None \/ b = None THEN Err("ImproperFormat")
                      ELSE IntervalOfRange(n.val, b.val)

---------------------------------------------------------------------------
(* password.rs: impl FromStr / Display for CharStyle *)

UpperToken == <<":", "u", "p", "p", "e", "r", ":">>
LowerToken == <<":", "l", "o", "w", "e", "r", ":">>
NumberToken == <<":", "n", "u", "m", "b", "e", "r", ":">>
SymbolToken == <<":", "s", "y", "m", "b", "o", "l", ":">>

\* chars[0] == ':' && chars[s.len() - 1] == ':', chars indexed by a byte
\* length: out of bounds, an abort, when s holds a multi-byte character
LooksLikePattern(s) ==
    IF s[1] # ":" THEN Ok(FALSE)
    ELSE IF ByteLen(s) > Len(s) THEN Panic
    ELSE Ok(s[ByteLen(s)] = ":")

CharStyle_from_str(s) ==
    CASE s = UpperToken -> Ok(Upper)
      [] s = LowerToken -> Ok(Lower)
      [] s = NumberToken -> Ok(Number)
      [] s = SymbolToken -> Ok(Symbol)
      [] OTHER ->
           IF Len(s) = 0 THEN Err("NoCharset")
           ELSE LET p == LooksLikePattern(s)
                IN IF p = Panic THEN Panic
                   ELSE IF p.val THEN Err("UnrecognizedPattern")
                   ELSE Ok(Custom(s))

CharStyle_display(chars) ==
    CASE chars.kind = "Upper" -> UpperToken
      [] chars.kind = "Lower" -> LowerToken
      [] chars.kind = "Number" -> NumberToken
      [] chars.kind = "Symbol" -> SymbolToken
      [] OTHER -> chars.lit

---------------------------------------------------------------------------
(* password.rs: impl Display for Choice, Choices, PasswordSpec *)

\* the interval part of Display for Choice
IntervalForm(min, max) ==
    IF min = max THEN ToDecimal(min)
    ELSE IF min = UsizeMin THEN ToDecimal(max) \o <<"-">>
    ELSE IF max = UsizeMax THEN ToDecimal(min) \o <<"+">>
    ELSE ToDecimal(min) \o <<"-">> \o ToDecimal(max)

\* mutant: the interval is written before the '|' and the class after it
Choice_display_IntervalFirst(c) ==
    IntervalForm(c.min, c.max) \o <<"|">> \o CharStyle_display(c.chars)

\* write!(f, "{}", self.chars)?; write!(f, "|")?; then the interval
Choice_display(c) ==
    CharStyle_display(c.chars) \o <<"|">> \o IntervalForm(c.min, c.max)

\* s.rfind(ch): the place of the last ch in s, 0 if there is none
RFind(s, ch) ==
    LET at == {k \in 1..Len(s) : s[k] = ch}
    IN IF at = {} THEN 0 ELSE CHOOSE k \in at : \A j \in at : j <= k

\* chars|interval -> Choice
Choice_from_str(s) ==
    LET pos == RFind(s, "|")
    IN IF pos = 0 THEN Err("NoInterval")
       ELSE LET chars == CharStyle_from_str(SubSeq(s, 1, pos - 1))
                interval == Interval_from_str(SubSeq(s, pos + 1, Len(s)))
            IN IF chars = Panic THEN Panic
               ELSE IF chars.tag = "Err" THEN Err("CharStyle")
               ELSE IF interval.tag = "Err" THEN Err("BadInterval")
               ELSE Ok(Choice_from_interval(interval.val, chars.val))

RECURSIVE Choices_display(_)
\* for choice in &self.choices { write!(f, "//{}", choice)?; } for the order
\* in which the set yields its elements
Choices_display(order) ==
    IF Len(order) = 0 THEN <<>>
    ELSE <<"/", "/">> \o Choice_display(Head(order)) \o Choices_display(Tail(order))

PasswordSpec_display(s, order) == ToDecimal(s.length) \o Choices_display(order)

---------------------------------------------------------------------------
(* password.rs: impl FromStr for PasswordSpec *)

first_sep == <<"/", "/">>
first_sep_char == "/"
second_sep == <<"|">>

Loop(tag, i, stack, c0, c1, sp) ==
    [tag |-> tag, i |-> i, stack |-> stack, c0 |-> c0, c1 |-> c1, spec |-> sp]

\* mutant: a length that does not parse is skipped, the default stays
LengthResult_Default(n, i, sp) ==
    Loop("End", i, <<>>, None, None, IF n # None THEN length(sp, n.val) ELSE sp)

\* if let Ok(length) = ..parse() { spec = spec.length(length); .. break }
\* else { return Err(InvalidLength(..)) }
LengthResult(n, i, sp) ==
    IF n # None
    THEN Loop("End", i, <<>>, None, None, length(sp, n.val))
    ELSE Err("InvalidLength")

RECURSIVE LengthLoop(_, _, _, _)
\* // parse length first: i characters of chars are consumed
LengthLoop(chars, i, stack, sp) ==
    IF i >= Len(chars) THEN Loop("End", i, stack, None, None, sp)
    ELSE LET pushed == Append(stack, chars[i + 1])
         IN IF ends_with(pushed, first_sep)
            THEN LengthResult(ParseUsize(DropSuffix(pushed, first_sep)), i + 1, sp)
            ELSE LengthLoop(chars, i + 1, pushed, sp)

RECURSIVE ChoiceLoop(_, _, _, _, _, _)
\* // parse choices: choice = (c0, c1)
ChoiceLoop(chars, i, stack, c0, c1, sp) ==
    IF i >= Len(chars) THEN Loop("End", i, stack, c0, c1, sp)
    ELSE LET c == chars[i + 1]
         IN IF c0 = None
            THEN LET pushed == Append(stack, c)
                 IN IF ends_with(pushed, second_sep)
                    THEN LET r == Interval_from_str(DropSuffix(pushed, second_sep))
                         IN IF r.tag = "Ok"
                            THEN ChoiceLoop(chars, i + 1, <<>>, Some(r.val), c1, sp)
                            ELSE Err("BadInterval")
                    ELSE ChoiceLoop(chars, i + 1, pushed, c0, c1, sp)
            ELSE IF c1 = None
            THEN IF c # first_sep_char /\ ends_with(stack, first_sep)
                 THEN LET r == CharStyle_from_str(DropSuffix(stack, first_sep))
                      IN IF r = Panic THEN Panic
                         ELSE IF r.tag = "Ok"
                         THEN ChoiceLoop(chars, i + 1, <<c>>, c0, Some(r.val), sp)
                         ELSE Err("BadCharset")
                 ELSE ChoiceLoop(chars, i + 1, Append(stack, c), c0, c1, sp)
            ELSE ChoiceLoop(chars, i, stack, None, None,
                            include(sp, Choice_from_interval(c0.val, c1.val)))

\* if stack.ends_with(&second_sep): the separator tested after the loop
TrailingSep == second_sep

\* // having a trailing // is valid: the state after the first test
EndOfInput(l) ==
    IF ends_with(l.stack, TrailingSep)
    THEN LET r == CharStyle_from_str(DropSuffix(l.stack, TrailingSep))
         IN IF r = Panic THEN Panic
            ELSE IF r.tag = "Ok"
            THEN Loop("End", l.i, <<>>, l.c0, Some(r.val), l.spec)
            ELSE Err("BadCharset")
    ELSE l

\* if !stack.is_empty() && choice.1.is_none(): the rest is a charset
RestIsCharset(l) ==
    IF Len(l.stack) # 0 /\ l.c1 = None
    THEN LET r == CharStyle_from_str(l.stack)
         IN IF r = Panic THEN Panic
            ELSE IF r.tag = "Ok"
            THEN Loop("End", l.i, l.stack, l.c0, Some(r.val), l.spec)
            ELSE Err("BadCharset")
    ELSE l

\* match choice { (Some, Some) => include, (None, None) => {}, _ => Err }
FinalMatch(l) ==
    IF l.c0 # None /\ l.c1 # None
    THEN Ok(include(l.spec, Choice_from_interval(l.c0.val, l.c1.val)))
    ELSE IF l.c0 = None /\ l.c1 = None THEN Ok(l.spec)
    ELSE Err("ImproperFormat")

PasswordSpec_from_str(text0) ==
    LET chars == trim_start(text0)
        l1 == LengthLoop(chars, 0, <<>>, PasswordSpec_new)
    IN IF l1.tag # "End" THEN l1
       ELSE LET l2 == ChoiceLoop(chars, l1.i, l1.stack, None, None, l1.spec)
            IN IF l2.tag # "End" THEN l2
               ELSE LET l3 == EndOfInput(l2)
                    IN IF l3.tag # "End" THEN l3
                       ELSE LET l4 == RestIsCharset(l3)
                            IN IF l4.tag # "End" THEN l4 ELSE FinalMatch(l4)

---------------------------------------------------------------------------
(* password.rs: PasswordSpec::generate, one action per step of its loops *)

\* if self.check() { ... } else { None }
GenerateCheck ==
    /\ pc = "start"
    /\ IF check(spec)
       THEN /\ pc' = "required"
            /\ todo' = spec.choices
            /\ UNCHANGED result
       ELSE /\ pc' = "done"
            /\ result' = None
            /\ UNCHANGED todo
    /\ UNCHANGED <<spec, cur, res, active, pool, characters, remaining, iter,
                   text, parsed, parsed2, origin, last, calls>>

\* for mut choice in self.choices.clone(): the set yields its elements in
\* an order of its own; get_required() starts with an empty res
TakeChoice ==
    /\ pc = "required"
    /\ cur = None
    /\ \E choice \in todo :
          /\ cur' = Some(choice)
          /\ todo' = todo \ {choice}
    /\ res' = <<>>
    /\ UNCHANGED <<pc, spec, active, pool, characters, remaining, iter, result,
                   text, parsed, parsed2, origin, last, calls>>

\* get_required: while self.required() { if let Some(c) = self.next() { res.push(c) } }
GetRequiredStep ==
    /\ pc = "required"
    /\ cur # None
    /\ Choice_required(cur.val)
    /\ \E o \in Choice_next(cur.val) :
          /\ cur' = Some(o.choice)
          /\ res' = IF o.item # None THEN Append(res, o.item.val) ELSE res
    /\ UNCHANGED <<pc, spec, todo, active, pool, characters, remaining, iter,
                   result, text, parsed, parsed2, origin, last, calls>>

\* get_required returns res: characters.extend(res); active.push(choice)
GetRequiredDone ==
    /\ pc = "required"
    /\ cur # None
    /\ ~Choice_required(cur.val)
    /\ characters' = characters \o res
    /\ active' = push(active, cur.val)
    /\ cur' = None
    /\ res' = <<>>
    /\ UNCHANGED <<pc, spec, todo, pool, remaining, iter, result,
                   text, parsed, parsed2, origin, last, calls>>

\* mutant: the characters already drawn are not subtracted
RemainingOf_NoSubtract(s, chars) == s.length

\* let remaining = self.length - characters.len();
RemainingOf(s, chars) == s.length - Len(chars)

\* the remaining count is taken and the active constraints are collected
\* into a Vec, in the order the set yields them. The subtraction of a
\* longer buffer aborts (overflow checks on) or wraps.
StartFill ==
    /\ pc = "required"
    /\ cur = None
    /\ todo = {}
    /\ IF Len(characters) > spec.length
       THEN /\ pc' \in {"panic", "wrapped"}
            /\ UNCHANGED <<remaining, pool, iter>>
       ELSE /\ pc' = "fill"
            /\ remaining' = RemainingOf(spec, characters)
            /\ pool' \in Perms({c \in active : Choice_active(c)})
            /\ iter' = 0
    /\ UNCHANGED <<spec, todo, cur, res, active, characters, result,
                   text, parsed, parsed2, origin, last, calls>>

\* one iteration of for _ in 0..remaining: a random index of the pool, if
\* there is one, then next().unwrap(), push, and removal once inactive
FillStep ==
    /\ pc = "fill"
    /\ iter < remaining
    /\ iter' = iter + 1
    /\ IF Len(pool) = 0
       THEN UNCHANGED <<pc, pool, characters>>
       ELSE \E index \in 1..Len(pool) :
              \E o \in Choice_next(pool[index]) :
                 IF o.item = None
                 THEN /\ pc' = "panic"
                      /\ pool' = [pool EXCEPT ![index] = o.choice]
                      /\ UNCHANGED characters
                 ELSE /\ characters' = Append(characters, o.item.val)
                      /\ pool' = IF Choice_active(o.choice)
                                 THEN [pool EXCEPT ![index] = o.choice]
                                 ELSE RemoveAt(pool, index)
                      /\ UNCHANGED pc
    /\ UNCHANGED <<spec, todo, cur, res, active, remaining, result,
                   text, parsed, parsed2, origin, last, calls>>

\* characters.shuffle(..); Some(characters.into_iter().collect())
ShuffleReturn ==
    /\ pc = "fill"
    /\ iter = remaining
    /\ \E s \in {[i \in 1..Len(characters) |-> characters[p[i]]] :
                  p \in Perms(1..Len(characters))} :
          /\ characters' = s
          /\ result' = Some(s)
    /\ pc' = "done"
    /\ UNCHANGED <<spec, todo, cur, res, active, pool, remaining, iter,
                   text, parsed, parsed2, origin, last, calls>>

generate ==
    \/ GenerateCheck
    \/ TakeChoice
    \/ GetRequiredStep
    \/ GetRequiredDone
    \/ StartFill
    \/ FillStep
    \/ ShuffleReturn

---------------------------------------------------------------------------
(* Generation: the specs generate() is run on *)

Counts == 0..MaxCount

\* the intervals the constructors of Interval give
BuiltIntervals ==
    {Interval_exactly(n) : n \in Counts}
    \cup {Interval_at_least(n) : n \in Counts}
    \cup {Interval_at_most(n) : n \in Counts}
    \cup {Interval_safe(a, b) : a, b \in Counts}
    \cup {Interval_new(p[1], p[2]).val : p \in {x \in Counts \X Counts : x[1] <= x[2]}}

ChoicesOver(classes, intervals) ==
    UNION {{{Choice_from_interval(f[c], c) : c \in D} : f \in [D -> intervals]} :
           D \in {E \in SUBSET classes : Cardinality(E) <= MaxChoices}}

NoFn == <<>>

InitGen ==
    /\ pc = "start"
    /\ \E n \in 0..MaxLength :
          \E cs \in ChoicesOver({Upper, Lower, Custom(<<"A">>), Custom(<<"b", "$">>)},
                                BuiltIntervals) :
             spec = PasswordSpec(n, cs)
    /\ todo = {}
    /\ cur = None
    /\ res = <<>>
    /\ active = Choices_new
    /\ pool = <<>>
    /\ characters = <<>>
    /\ remaining = 0
    /\ iter = 0
    /\ result = None
    /\ text = <<>>
    /\ parsed = None
    /\ parsed2 = None
    /\ origin = "none"
    /\ last = NoFn
    /\ calls = 0

SpecGen == InitGen /\ [][generate]_vars

---------------------------------------------------------------------------
\* sum of all constraints' min <= length <= sum of all constraints' max
Feasible(s) ==
    /\ SatSum(s.choices, "min") <= s.length
    /\ s.length <= SatSum(s.choices, "max")

\* how many characters of a text belong to a character class
CountIn(s, chars) == Cardinality({i \in 1..Len(s) : s[i] \in Range(to_charset(chars))})

Returned == pc = "done"


---------------------------------------------------------------------------
(* Generation on every spec the builder API can hold: the fields of        *)
(* Interval are public, so min may exceed max, and custom() takes any      *)
(* list of characters, the empty one too                                   *)

AnyBounds == Counts \cup {UsizeMax}

InitGenAny ==
    /\ pc = "start"
    /\ origin = "any"
    /\ \E n \in 0..MaxLength :
          \E cs \in ChoicesOver({Upper, Custom(<<"A">>), Custom(<<>>)},
                                {Interval(a, b) : a \in AnyBounds, b \in AnyBounds}) :
             spec = PasswordSpec(n, cs)
    /\ todo = {}
    /\ cur = None
    /\ res = <<>>
    /\ active = Choices_new
    /\ pool = <<>>
    /\ characters = <<>>
    /\ remaining = 0
    /\ iter = 0
    /\ result = None
    /\ text = <<>>
    /\ parsed = None
    /\ parsed2 = None
    /\ last = NoFn
    /\ calls = 0

SpecGenAny == InitGenAny /\ [][generate]_vars

---------------------------------------------------------------------------
(* The feasibility check alone, on specs with sums at and past usize::MAX *)

InitCheck ==
    /\ pc = "spec"
    /\ origin = "check"
    /\ \E n \in 0..MaxLength \cup {UsizeMax - 1, UsizeMax} :
          \E cs \in ChoicesOver({Upper, Lower, Custom(<<"A">>)},
                                {Interval_at_least(m) : m \in Counts \cup {UsizeMax - 1, UsizeMax}}
                                \cup {Interval_at_most(MaxCount), Interval_exactly(1),
                                      Interval_exactly(UsizeMax)}) :
             spec = PasswordSpec(n, cs)
    /\ todo = {}
    /\ cur = None
    /\ res = <<>>
    /\ active = Choices_new
    /\ pool = <<>>
    /\ characters = <<>>
    /\ remaining = 0
    /\ iter = 0
    /\ result = None
    /\ text = <<>>
    /\ parsed = None
    /\ parsed2 = None
    /\ last = NoFn
    /\ calls = 0

\* self.check()
CallCheck ==
    /\ origin = "check"
    /\ pc = "spec"
    /\ result' = Some(check(spec))
    /\ pc' = "checked"
    /\ UNCHANGED <<spec, todo, cur, res, active, pool, characters, remaining,
                   iter, text, parsed, parsed2, origin, last, calls>>

SpecCheck == InitCheck /\ [][CallCheck]_vars

---------------------------------------------------------------------------
(* The parsers of one value: an input text is drawn, the parser applied *)

\* every text of up to MaxTextLen characters over an alphabet
TextsOver(alphabet) == UNION {[1..n -> alphabet] : n \in 0..MaxTextLen}

\* usize::MAX and the next number, in decimal
MaxNumeral == ToDecimal(UsizeMax)
OverNumeral == <<"2", "1", "4", "7", "4", "8", "3", "6", "4", "8">>

\* the usize arguments handed to the constructors
IntervalArgs == Counts \cup {UsizeMax}

InitInterval ==
    /\ pc = "text"
    /\ \/ /\ origin = "interval"
          /\ text \in TextsOver({"0", "1", "2", "+", "-", " ", "x", "U+0663"})
                       \cup {n \o t : n \in {MaxNumeral, OverNumeral},
                                      t \in {<<>>, <<"+">>, <<"-">>, <<"-", "1">>}}
                       \cup {<<"1", "-">> \o n : n \in {MaxNumeral, OverNumeral}}
       \/ /\ origin = "construct"
          /\ text = <<>>
    /\ spec = PasswordSpec_new
    /\ todo = {}
    /\ cur = None
    /\ res = <<>>
    /\ active = Choices_new
    /\ pool = <<>>
    /\ characters = <<>>
    /\ remaining = 0
    /\ iter = 0
    /\ result = None
    /\ parsed = None
    /\ parsed2 = None
    /\ last = NoFn
    /\ calls = 0

\* text.parse::<Interval>()
ParseInterval ==
    /\ origin = "interval"
    /\ parsed = None
    /\ parsed' = Interval_from_str(text)
    /\ UNCHANGED <<pc, spec, todo, cur, res, active, pool, characters,
                   remaining, iter, result, text, parsed2, origin, last, calls>>

\* the spec text "32//<text>|:upper:", whose one group has text as interval
GroupText(t) == <<"3", "2", "/", "/">> \o t \o <<"|">> \o UpperToken

\* GroupText(text).parse::<PasswordSpec>()
ParseGroupText ==
    /\ origin = "interval"
    /\ parsed2 = None
    /\ parsed2' = PasswordSpec_from_str(GroupText(text))
    /\ UNCHANGED <<pc, spec, todo, cur, res, active, pool, characters,
                   remaining, iter, result, text, parsed, origin, last, calls>>

\* what a constructor call leaves alone; res records the call made
Construct ==
    /\ origin = "construct"
    /\ res = <<>>
    /\ UNCHANGED <<pc, spec, todo, cur, active, pool, characters, remaining,
                   iter, text, parsed, parsed2, origin, last, calls>>

\* Interval::new(a, b)
CallIntervalNew ==
    /\ Construct
    /\ \E a, b \in IntervalArgs :
          /\ res' = <<"new", a, b>>
          /\ result' = Interval_new(a, b)

\* Interval::at_least(a)
CallIntervalAtLeast ==
    /\ Construct
    /\ \E a \in IntervalArgs :
          /\ res' = <<"at_least", a>>
          /\ result' = Interval_at_least(a)

\* Interval::at_most(a)
CallIntervalAtMost ==
    /\ Construct
    /\ \E a \in IntervalArgs :
          /\ res' = <<"at_most", a>>
          /\ result' = Interval_at_most(a)

\* Interval::exactly(a)
CallIntervalExactly ==
    /\ Construct
    /\ \E a \in IntervalArgs :
          /\ res' = <<"exactly", a>>
          /\ result' = Interval_exactly(a)

\* Interval::safe(a, b)
CallIntervalSafe ==
    /\ Construct
    /\ \E a, b \in IntervalArgs :
          /\ res' = <<"safe", a, b>>
          /\ result' = Interval_safe(a, b)

SpecInterval ==
    InitInterval /\ [][ParseInterval \/ ParseGroupText \/ CallIntervalNew
                        \/ CallIntervalAtLeast \/ CallIntervalAtMost
                        \/ CallIntervalExactly \/ CallIntervalSafe]_vars

InitCharStyle ==
    /\ pc = "text"
    /\ origin = "charstyle"
    /\ text \in TextsOver({":", "a", "/", "U+00E9"})
                 \cup {UpperToken, LowerToken, NumberToken, SymbolToken}
                 \cup {<<":", "n", "o", "t", "_", "r", "e", "a", "l", ":">>}
                 \cup {<<":", "u", "p", "p", "e", "r">>, <<"u", "p", "p", "e", "r", ":">>}
    /\ spec = PasswordSpec_new
    /\ todo = {}
    /\ cur = None
    /\ res = <<>>
    /\ active = Choices_new
    /\ pool = <<>>
    /\ characters = <<>>
    /\ remaining = 0
    /\ iter = 0
    /\ result = None
    /\ parsed = None
    /\ parsed2 = None
    /\ last = NoFn
    /\ calls = 0

\* text.parse::<CharStyle>()
ParseCharStyle ==
    /\ origin = "charstyle"
    /\ parsed = None
    /\ parsed' = CharStyle_from_str(text)
    /\ UNCHANGED <<pc, spec, todo, cur, res, active, pool, characters,
                   remaining, iter, result, text, parsed2, origin, last, calls>>

SpecCharStyle == InitCharStyle /\ [][ParseCharStyle]_vars

---------------------------------------------------------------------------
(* Display and parsing of whole specs *)

CodecLengths == {0, 32}

\* INTERVAL '|' CHARSETSPEC
Group(interval, class) ==
    IntervalForm(interval.min, interval.max) \o <<"|">> \o CharStyle_display(class)

RECURSIVE JoinGroups(_)
JoinGroups(gs) ==
    IF Len(gs) = 0 THEN <<>>
    ELSE first_sep \o Head(gs) \o JoinGroups(Tail(gs))

\* cli.rs: default_value of the spec option,
\* "[:upper:|1+][:lower:|1+][:number:|1+][:symbol:|1+]{32}"
CliDefaultSpec ==
    <<"[">> \o UpperToken \o <<"|", "1", "+", "]">>
    \o <<"[">> \o LowerToken \o <<"|", "1", "+", "]">>
    \o <<"[">> \o NumberToken \o <<"|", "1", "+", "]">>
    \o <<"[">> \o SymbolToken \o <<"|", "1", "+", "]">>
    \o <<"{", "3", "2", "}">>

InitCodec ==
    /\ \/ /\ origin = "builder"
          /\ pc = "built"
          /\ \/ spec = PasswordSpec_default
             \/ \E n \in CodecLengths :
                   \E cs \in ChoicesOver({Upper, Symbol, Custom(<<"a", "b">>), Custom(<<"3">>)},
                                         BuiltIntervals) :
                      spec = PasswordSpec(n, cs)
          /\ text = <<>>
       \/ /\ origin = "grammar"
          /\ pc = "text"
          /\ spec = PasswordSpec_new
          /\ \E n \in CodecLengths, k \in 1..MaxGroups :
                \E gs \in [1..k -> {Group(i, c) :
                                      i \in BuiltIntervals,
                                      c \in {Upper, Custom(<<"a", "b">>), Custom(<<"3">>)}}] :
                   text = ToDecimal(n) \o JoinGroups(gs)
       \/ /\ origin = "raw"
          /\ pc = "text"
          /\ spec = PasswordSpec_new
          /\ \E seg \in {<<"t", "w", "e", "n", "t", "y">>, <<>>, <<"3", "2">>, <<"+", "5">>,
                           <<"+">>, <<" ", "5">>, <<"5", " ">>, <<"-", "1">>, <<"1", "x">>,
                           <<"3", "/", "2">>, <<"U+0663">>, <<"0">>, <<"0", "7">>,
                           <<"\t", "+", "7">>, <<"3", "2", "+">>, MaxNumeral, OverNumeral} :
                \E tail \in {<<>>, <<"x">>, <<"|">>, <<"/", "/">>,
                              <<"1", "+", "|">> \o UpperToken,
                              <<"1", "+", "|">> \o UpperToken \o first_sep,
                              <<"1", "-", "0", "|">> \o UpperToken,
                              <<"1", "+", "|", ":", "n", "o", "t", "_", "r", "e", "a", "l", ":">>} :
                   text = seg \o first_sep \o tail
       \/ /\ origin = "bare"
          /\ pc = "text"
          /\ spec = PasswordSpec_new
          /\ text \in TextsOver({"3", "+", " ", "|", "/", ":"})
          /\ ~\E k \in 1..(Len(text) - 1) : text[k] = "/" /\ text[k + 1] = "/"
       \/ /\ origin = "cli"
          /\ pc = "text"
          /\ spec = PasswordSpec_new
          /\ text = CliDefaultSpec
    /\ todo = {}
    /\ cur = None
    /\ res = <<>>
    /\ active = Choices_new
    /\ pool = <<>>
    /\ characters = <<>>
    /\ remaining = 0
    /\ iter = 0
    /\ result = None
    /\ parsed = None
    /\ parsed2 = None
    /\ last = NoFn
    /\ calls = 0

\* spec.to_string(), the set yielding its constraints in some order
DisplaySpec ==
    /\ origin = "builder"
    /\ pc = "built"
    /\ \E order \in Perms(spec.choices) : text' = PasswordSpec_display(spec, order)
    /\ pc' = "text"
    /\ UNCHANGED <<spec, todo, cur, res, active, pool, characters,
                   remaining, iter, result, parsed, parsed2, origin, last, calls>>

\* text.parse::<PasswordSpec>()
ParseText ==
    /\ origin \in {"builder", "grammar", "raw", "bare", "cli"}
    /\ pc = "text"
    /\ parsed = None
    /\ parsed' = PasswordSpec_from_str(text)
    /\ UNCHANGED <<pc, spec, todo, cur, res, active, pool, characters,
                   remaining, iter, result, text, parsed2, origin, last, calls>>

\* format!("{text}//").parse::<PasswordSpec>()
ParseTextSlashed ==
    /\ origin = "grammar"
    /\ pc = "text"
    /\ parsed2 = None
    /\ parsed2' = PasswordSpec_from_str(text \o first_sep)
    /\ UNCHANGED <<pc, spec, todo, cur, res, active, pool, characters,
                   remaining, iter, result, text, parsed, origin, last, calls>>

SpecCodec == InitCodec /\ [][DisplaySpec \/ ParseText \/ ParseTextSlashed]_vars

---------------------------------------------------------------------------
(* The builder API *)

CharStyle_at_least(chars, size) == Choice_at_least(size, chars)
CharStyle_at_most(chars, size) == Choice_at_most(size, chars)
CharStyle_exactly(chars, size) == Choice_exactly(size, chars)
CharStyle_from_interval(chars, interval) == Choice_from_interval(interval, chars)

upper(s, interval) == PasswordSpec(s.length, push(s.choices, Choice_from_interval(interval, Upper)))
upper_at_least(s, size) == PasswordSpec(s.length, push(s.choices, CharStyle_at_least(Upper, size)))
upper_at_most(s, size) == PasswordSpec(s.length, push(s.choices, CharStyle_at_most(Upper, size)))
upper_exactly(s, size) == PasswordSpec(s.length, push(s.choices, CharStyle_exactly(Upper, size)))
lower(s, interval) == PasswordSpec(s.length, push(s.choices, Choice_from_interval(interval, Lower)))
lower_at_least(s, size) == PasswordSpec(s.length, push(s.choices, CharStyle_at_least(Lower, size)))
lower_at_most(s, size) == PasswordSpec(s.length, push(s.choices, CharStyle_at_most(Lower, size)))
lower_exactly(s, size) == PasswordSpec(s.length, push(s.choices, CharStyle_exactly(Lower, size)))
number(s, interval) == PasswordSpec(s.length, push(s.choices, Choice_from_interval(interval, Number)))
number_at_least(s, size) == PasswordSpec(s.length, push(s.choices, CharStyle_at_least(Number, size)))
number_at_most(s, size) == PasswordSpec(s.length, push(s.choices, CharStyle_at_most(Number, size)))
number_exactly(s, size) == PasswordSpec(s.length, push(s.choices, CharStyle_exactly(Number, size)))
symbol(s, interval) == PasswordSpec(s.length, push(s.choices, Choice_from_interval(interval, Symbol)))
symbol_at_least(s, size) == PasswordSpec(s.length, push(s.choices, CharStyle_at_least(Symbol, size)))
symbol_at_most(s, size) == PasswordSpec(s.length, push(s.choices, CharStyle_at_most(Symbol, size)))
symbol_exactly(s, size) == PasswordSpec(s.length, push(s.choices, CharStyle_exactly(Symbol, size)))
custom(s, chars, interval) ==
    PasswordSpec(s.length, push(s.choices, Choice_from_interval(interval, Custom(chars))))
custom_at_least(s, chars, size) ==
    PasswordSpec(s.length, push(s.choices, CharStyle_at_least(Custom(chars), size)))
custom_at_most(s, chars, size) ==
    PasswordSpec(s.length, push(s.choices, CharStyle_at_most(Custom(chars), size)))
custom_exactly(s, chars, size) ==
    PasswordSpec(s.length, push(s.choices, CharStyle_exactly(Custom(chars), size)))

\* the builder method of a class that takes an interval
WithInterval(s, class, interval) ==
    CASE class = Upper -> upper(s, interval)
      [] class = Lower -> lower(s, interval)
      [] class = Number -> number(s, interval)
      [] class = Symbol -> symbol(s, interval)
      [] OTHER -> custom(s, class.lit, interval)

WithAtLeast(s, class, size) ==
    CASE class = Upper -> upper_at_least(s, size)
      [] class = Lower -> lower_at_least(s, size)
      [] class = Number -> number_at_least(s, size)
      [] class = Symbol -> symbol_at_least(s, size)
      [] OTHER -> custom_at_least(s, class.lit, size)

WithAtMost(s, class, size) ==
    CASE class = Upper -> upper_at_most(s, size)
      [] class = Lower -> lower_at_most(s, size)
      [] class = Number -> number_at_most(s, size)
      [] class = Symbol -> symbol_at_most(s, size)
      [] OTHER -> custom_at_most(s, class.lit, size)

WithExactly(s, class, size) ==
    CASE class = Upper -> upper_exactly(s, size)
      [] class = Lower -> lower_exactly(s, size)
      [] class = Number -> number_exactly(s, size)
      [] class = Symbol -> symbol_exactly(s, size)
      [] OTHER -> custom_exactly(s, class.lit, size)

BuildClasses == {Upper, Lower, Number, Symbol, Custom(<<"a", "b">>)}

\* the classes of the groups of a parsed text
ParseClasses == {Upper, Custom(<<"a", "b">>)}

\* the insertion history with one more insertion for a class
Inserted(h, class, interval) ==
    [c \in DOMAIN h \cup {class} |->
        IF c = class
        THEN (IF c \in DOMAIN h THEN h[c] ELSE <<>>) \o <<interval>>
        ELSE h[c]]

RECURSIVE InsertedAll(_, _)
\* the insertion history after the groups gs, pairs of interval and class
InsertedAll(h, gs) ==
    IF Len(gs) = 0 THEN h
    ELSE InsertedAll(Inserted(h, Head(gs)[2], Head(gs)[1]), Tail(gs))

\* an Option over a set of values
OptionOf(S) == {None} \cup {Some(x) : x \in S}

\* the character strings of the --custom arguments
CliCustomChars == {<<"a", "b">>, <<"$">>}

InitBuild ==
    /\ \/ /\ origin = "build"
          /\ pc = "new"
          /\ spec = PasswordSpec_new
          /\ cur = None
          /\ parsed = None
       \/ /\ origin = "cli"
          /\ pc = "length"
          /\ spec \in {PasswordSpec_default,
                       PasswordSpec_new,
                       PasswordSpec(2, {Choice_at_least(1, Upper),
                                        Choice_exactly(1, Custom(<<"a", "b">>))})}
          /\ cur \in [length : OptionOf({0, MaxLength}),
                      upper : OptionOf({Interval_exactly(0), Interval_at_least(1),
                                        Interval_at_most(MaxCount)}),
                      lower : OptionOf({Interval_exactly(0)}),
                      number : OptionOf({Interval_at_most(MaxCount)}),
                      symbol : OptionOf({Interval_exactly(0)}),
                      custom : UNION {[1..k -> CliCustomChars
                                               \X {Interval_exactly(1), Interval_at_least(0)}] :
                                      k \in 0..2}]
          /\ parsed = Ok(spec)
       \/ /\ origin = "vec"
          /\ pc = "new"
          /\ spec = PasswordSpec_new
          /\ cur = None
          /\ parsed = None
    /\ text = <<>>
    /\ todo = {}
    /\ res = <<>>
    /\ active = Choices_new
    /\ pool = <<>>
    /\ characters = <<>>
    /\ remaining = 0
    /\ iter = 0
    /\ result = None
    /\ parsed2 = None
    /\ last = NoFn
    /\ calls = 0

\* spec = spec.length(n)
CallLength ==
    /\ origin = "build"
    /\ \E n \in 0..MaxLength : spec' = length(spec, n) /\ spec' # spec
    /\ pc' = "building"
    /\ UNCHANGED <<todo, cur, res, active, pool, characters, remaining, iter,
                   result, text, parsed, parsed2, origin, last, calls>>

\* what an insertion leaves alone, and its count
Insertion ==
    /\ origin = "build"
    /\ calls < MaxCalls
    /\ calls' = calls + 1
    /\ pc' = "building"
    /\ UNCHANGED <<todo, cur, res, active, pool, characters, remaining, iter,
                   result, text, parsed, parsed2, origin>>

\* spec = spec.include(choice)
CallInclude ==
    /\ Insertion
    /\ \E class \in BuildClasses, interval \in BuiltIntervals :
          /\ spec' = include(spec, CharStyle_from_interval(class, interval))
          /\ last' = Inserted(last, class, interval)

\* spec = spec.upper(interval), .lower(interval), ... .custom(chars, interval)
CallWithInterval ==
    /\ Insertion
    /\ \E class \in BuildClasses, interval \in BuiltIntervals :
          /\ spec' = WithInterval(spec, class, interval)
          /\ last' = Inserted(last, class, interval)

\* spec = spec.upper_at_least(size), ... .custom_at_least(chars, size)
CallAtLeast ==
    /\ Insertion
    /\ \E class \in BuildClasses, size \in Counts :
          /\ spec' = WithAtLeast(spec, class, size)
          /\ last' = Inserted(last, class, Interval(size, UsizeMax))

\* spec = spec.upper_at_most(size), ... .custom_at_most(chars, size)
CallAtMost ==
    /\ Insertion
    /\ \E class \in BuildClasses, size \in Counts :
          /\ spec' = WithAtMost(spec, class, size)
          /\ last' = Inserted(last, class, Interval(UsizeMin, size))

\* spec = spec.upper_exactly(size), ... .custom_exactly(chars, size)
CallExactly ==
    /\ Insertion
    /\ \E class \in BuildClasses, size \in Counts :
          /\ spec' = WithExactly(spec, class, size)
          /\ last' = Inserted(last, class, Interval(size, size))

\* spec = text.parse().unwrap() for a text of up to MaxGroups groups
ParseGroups ==
    /\ origin = "build"
    /\ pc = "new"
    /\ \E k \in 1..MaxGroups :
          /\ k <= MaxCalls
          /\ \E gs \in [1..k -> BuiltIntervals \X ParseClasses] :
                /\ text' = ToDecimal(32)
                           \o JoinGroups([i \in 1..k |-> Group(gs[i][1], gs[i][2])])
                /\ PasswordSpec_from_str(text').tag = "Ok"
                /\ spec' = PasswordSpec_from_str(text').val
                /\ last' = InsertedAll(NoFn, gs)
                /\ calls' = k
    /\ pc' = "building"
    /\ UNCHANGED <<todo, cur, res, active, pool, characters, remaining, iter,
                   result, parsed, parsed2, origin>>

\* what a step of CliArgs::run leaves alone
CliStep ==
    /\ origin = "cli"
    /\ UNCHANGED <<todo, cur, res, active, pool, characters, remaining,
                   result, text, parsed, parsed2, origin, last, calls>>

\* if let Some(length) = args.length { password_spec = password_spec.length(length) }
CliLength ==
    /\ CliStep
    /\ pc = "length"
    /\ spec' = IF cur.length # None THEN length(spec, cur.length.val) ELSE spec
    /\ pc' = "upper"
    /\ UNCHANGED iter

\* if let Some(upper) = args.upper { password_spec = password_spec.upper(upper) }
CliUpper ==
    /\ CliStep
    /\ pc = "upper"
    /\ spec' = IF cur.upper # None THEN upper(spec, cur.upper.val) ELSE spec
    /\ pc' = "lower"
    /\ UNCHANGED iter

\* if let Some(lower) = args.lower { password_spec = password_spec.lower(lower) }
CliLower ==
    /\ CliStep
    /\ pc = "lower"
    /\ spec' = IF cur.lower # None THEN lower(spec, cur.lower.val) ELSE spec
    /\ pc' = "number"
    /\ UNCHANGED iter

\* if let Some(number) = args.number { password_spec = password_spec.number(number) }
CliNumber ==
    /\ CliStep
    /\ pc = "number"
    /\ spec' = IF cur.number # None THEN number(spec, cur.number.val) ELSE spec
    /\ pc' = "symbol"
    /\ UNCHANGED iter

\* if let Some(symbol) = args.symbol { password_spec = password_spec.symbol(symbol) }
CliSymbol ==
    /\ CliStep
    /\ pc = "symbol"
    /\ spec' = IF cur.symbol # None THEN symbol(spec, cur.symbol.val) ELSE spec
    /\ pc' = "custom"
    /\ UNCHANGED iter

\* for c in args.custom { password_spec = password_spec.custom(chars of c.0, c.1) }
CliCustom ==
    /\ CliStep
    /\ pc = "custom"
    /\ iter < Len(cur.custom)
    /\ spec' = custom(spec, cur.custom[iter + 1][1], cur.custom[iter + 1][2])
    /\ iter' = iter + 1
    /\ UNCHANGED pc

\* the loop over args.custom is over: password_spec goes to generate()
CliOverridden ==
    /\ CliStep
    /\ pc = "custom"
    /\ iter = Len(cur.custom)
    /\ pc' = "overridden"
    /\ UNCHANGED <<spec, iter>>

\* Choices::from(value) for a Vec of up to MaxGroups constraints
ChoicesFrom ==
    /\ origin = "vec"
    /\ pc = "new"
    /\ \E k \in 1..MaxGroups :
          \E gs \in [1..k -> BuiltIntervals \X ParseClasses] :
             /\ active' = Choices_from([i \in 1..k |-> Choice_from_interval(gs[i][1], gs[i][2])])
             /\ last' = InsertedAll(NoFn, gs)
             /\ calls' = k
    /\ pc' = "collected"
    /\ UNCHANGED <<spec, todo, cur, res, pool, characters, remaining, iter,
                   result, text, parsed, parsed2, origin>>

SpecBuild ==
    InitBuild /\ [][CallLength \/ CallInclude \/ CallWithInterval \/ CallAtLeast
                     \/ CallAtMost \/ CallExactly \/ ParseGroups
                     \/ CliLength \/ CliUpper \/ CliLower \/ CliNumber
                     \/ CliSymbol \/ CliCustom \/ CliOverridden
                     \/ ChoicesFrom]_vars

---------------------------------------------------------------------------
(* Display and parsing of one constraint *)

\* built-in classes and custom classes free of '/', '|' and ':'
ChoiceClasses ==
    {Upper, Lower, Number, Symbol, Custom(<<"a", "b">>), Custom(<<"3">>),
     Custom(<<" ", "-">>), Custom(<<"U+00E9", "+">>)}

ChoiceBounds == 0..(MaxCount + 1) \cup {UsizeMax}

InitChoice ==
    /\ pc = "built"
    /\ origin = "choice"
    /\ \E a \in ChoiceBounds, b \in ChoiceBounds, class \in ChoiceClasses :
          /\ a <= b
          /\ cur = Some(Choice(a, b, class))
    /\ text = <<>>
    /\ spec = PasswordSpec_new
    /\ todo = {}
    /\ res = <<>>
    /\ active = Choices_new
    /\ pool = <<>>
    /\ characters = <<>>
    /\ remaining = 0
    /\ iter = 0
    /\ result = None
    /\ parsed = None
    /\ parsed2 = None
    /\ last = NoFn
    /\ calls = 0

\* choice.to_string()
DisplayChoice ==
    /\ origin = "choice"
    /\ pc = "built"
    /\ text' = Choice_display(cur.val)
    /\ pc' = "text"
    /\ UNCHANGED <<spec, todo, cur, res, active, pool, characters, remaining,
                   iter, result, parsed, parsed2, origin, last, calls>>

\* text.parse::<Choice>()
ParseChoice ==
    /\ origin = "choice"
    /\ pc = "text"
    /\ parsed = None
    /\ parsed' = Choice_from_str(text)
    /\ UNCHANGED <<pc, spec, todo, cur, res, active, pool, characters, remaining,
                   iter, result, text, parsed2, origin, last, calls>>

SpecChoice == InitChoice /\ [][DisplayChoice \/ ParseChoice]_vars

---------------------------------------------------------------------------
(* C1. For every feasible spec, generate() returns Some(password), the     *)
(* password has exactly `length` characters, whatever the random choices   *)
(* and the set's iteration order; the call neither aborts nor gets stuck.  *)
LengthInvariant ==
    Feasible(spec) =>
       /\ pc \notin {"panic", "wrapped"}
       /\ Returned \/ ENABLED generate
       /\ Returned => /\ result # None
                      /\ Len(result.val) = spec.length

\* a feasible spec of two constraints whose password took fill draws
LengthWitness ==
    /\ Returned
    /\ Feasible(spec)
    /\ Cardinality(spec.choices) = 2
    /\ spec.length = MaxLength
    /\ remaining > 0
    /\ result # None
    /\ Len(result.val) = MaxLength

(* C2. For every feasible spec and every constraint in it, the generated   *)
(* password holds at least the constraint's min characters of the          *)
(* constraint's character class.                                           *)
MinimumSatisfied ==
    (Returned /\ Feasible(spec)) =>
       /\ result # None
       /\ \A c \in spec.choices : CountIn(result.val, c.chars) >= c.min

\* a password that holds exactly the required characters of one class
\* beside a character of another
MinimumWitness ==
    /\ Returned
    /\ Feasible(spec)
    /\ result # None
    /\ \E c \in spec.choices :
          /\ c.min >= 1
          /\ CountIn(result.val, c.chars) = c.min
          /\ Len(result.val) > c.min

(* C3, as claimed. For every feasible spec and every constraint in it the  *)
(* password holds at most the constraint's max characters of the           *)
(* constraint's class, also when a custom class of the spec overlaps it.   *)
MaximumRespected ==
    (Returned /\ Feasible(spec) /\ result # None) =>
       \A c \in spec.choices : CountIn(result.val, c.chars) <= c.max

\* two character classes share a character
Overlap(a, b) == Range(to_charset(a)) \cap Range(to_charset(b)) # {}

\* no other constraint of the spec draws from a class that shares a
\* character with the class of c
Alone(c, s) == \A d \in s.choices : d.chars # c.chars => ~Overlap(c.chars, d.chars)

(* C3, amended. For every feasible spec and every constraint in it whose   *)
(* class shares no character with the class of another constraint of the   *)
(* spec, the password holds at most the constraint's max characters of     *)
(* that class (exactly n for exactly(n)).                                  *)
MaximumRespectedAlone ==
    (Returned /\ Feasible(spec)) =>
       /\ result # None
       /\ \A c \in spec.choices :
             Alone(c, spec) => CountIn(result.val, c.chars) <= c.max

\* a cap that binds: the password is longer than the max of a constraint
\* and holds exactly max characters of its class
MaximumWitness ==
    /\ Returned
    /\ Feasible(spec)
    /\ result # None
    /\ \E c \in spec.choices :
          /\ Alone(c, spec)
          /\ c.max >= 1
          /\ c.max < spec.length
          /\ CountIn(result.val, c.chars) = c.max

(* C4. For every spec whose saturating sum of the min exceeds the length,  *)
(* or whose length exceeds the saturating sum of the max, generate()       *)
(* returns None and has produced no character.                             *)
InfeasibleGivesNone ==
    (Returned /\ ~Feasible(spec)) =>
       /\ result = None
       /\ characters = <<>>

\* a spec with constraints whose length is above the sum of their max
InfeasibleWitness ==
    /\ Returned
    /\ spec.choices # {}
    /\ SatSum(spec.choices, "min") <= spec.length
    /\ spec.length > SatSum(spec.choices, "max")
    /\ result = None

---------------------------------------------------------------------------
\* a run of ASCII digits that denotes a usize
Numeral(t) ==
    /\ Len(t) > 0
    /\ \A k \in 1..Len(t) : t[k] \in AsciiDigits
    /\ AccumulateDigits(t, 1, 0) # None

ValueOf(t) == AccumulateDigits(t, 1, 0).val

\* the places of a '-' that has a numeral on either side
RangeSplits(t) ==
    {k \in 2..(Len(t) - 1) :
        /\ t[k] = "-"
        /\ Numeral(SubSeq(t, 1, k - 1))
        /\ Numeral(SubSeq(t, k + 1, Len(t)))}

\* the classification of C8: N, N+, N-, A-B, and a format error otherwise
ClassifiedInterval(t) ==
    IF Numeral(t) THEN Ok(Interval(ValueOf(t), ValueOf(t)))
    ELSE IF Len(t) > 1 /\ t[Len(t)] = "+" /\ Numeral(SubSeq(t, 1, Len(t) - 1))
    THEN Ok(Interval(ValueOf(SubSeq(t, 1, Len(t) - 1)), UsizeMax))
    ELSE IF Len(t) > 1 /\ t[Len(t)] = "-" /\ Numeral(SubSeq(t, 1, Len(t) - 1))
    THEN Ok(Interval(0, ValueOf(SubSeq(t, 1, Len(t) - 1))))
    ELSE IF RangeSplits(t) # {}
    THEN LET k == CHOOSE x \in RangeSplits(t) : TRUE
             a == ValueOf(SubSeq(t, 1, k - 1))
             b == ValueOf(SubSeq(t, k + 1, Len(t)))
         IN IF a <= b THEN Ok(Interval(a, b)) ELSE Err("BadBounds")
    ELSE Err("ImproperFormat")

(* C8, as claimed. Interval parsing gives, for every input text: [N,N] for *)
(* 'N', [N,MAX] for 'N+', [0,N] for 'N-', [A,B] for 'A-B' with A <= B,     *)
(* BadBounds for 'A-B' with A > B, a format error for every other text;    *)
(* a spec text whose group has an inverted interval fails to parse.        *)
IntervalClassified ==
    /\ (origin = "interval" /\ parsed # None) => parsed = ClassifiedInterval(text)
    /\ (origin = "interval" /\ parsed = Err("BadBounds") /\ parsed2 # None)
          => parsed2.tag = "Err"

(* C8, amended. Interval parsing classifies every input text by what is    *)
(* left of it once leading and trailing whitespace is removed: [N,N] for   *)
(* 'N', [N,MAX] for 'N+', [0,N] for 'N-', [A,B] for 'A-B' with A <= B,     *)
(* BadBounds for 'A-B' with A > B, a format error for everything else; a   *)
(* spec text whose group has an inverted interval fails to parse, with     *)
(* BadInterval.                                                            *)
IntervalClassifiedTrimmed ==
    /\ (origin = "interval" /\ parsed # None) => parsed = ClassifiedInterval(trim(text))
    /\ (origin = "interval" /\ parsed = Err("BadBounds") /\ parsed2 # None)
          => parsed2 = Err("BadInterval")

\* an inverted interval, padded with a blank, is refused alone and in a spec
IntervalWitness ==
    /\ origin = "interval"
    /\ text = <<" ", "2", "-", "1">>
    /\ parsed = Err("BadBounds")
    /\ parsed2 = Err("BadInterval")

\* the classification of C9
ClassifiedCharStyle(t) ==
    CASE t = UpperToken -> Ok(Upper)
      [] t = LowerToken -> Ok(Lower)
      [] t = NumberToken -> Ok(Number)
      [] t = SymbolToken -> Ok(Symbol)
      [] OTHER ->
           IF Len(t) = 0 THEN Err("NoCharset")
           ELSE IF t[1] = ":" /\ t[Len(t)] = ":" THEN Err("UnrecognizedPattern")
           ELSE Ok(Custom(t))

(* C9. Character-class parsing classifies every input string without       *)
(* aborting: the four tokens give the built-in classes, the empty string   *)
(* NoCharset, any other string that starts and ends with ':'               *)
(* UnrecognizedPattern, and every remaining string, also one with          *)
(* multi-byte characters, Custom over its characters in order.             *)
CharStyleClassified ==
    (origin = "charstyle" /\ parsed # None) =>
       /\ parsed # Panic
       /\ parsed = ClassifiedCharStyle(text)

---------------------------------------------------------------------------
(* C5. Round trip of a whole spec: for every spec built through the        *)
(* builder API from the four built-in classes and custom classes whose     *)
(* characters avoid the delimiters, parsing the displayed text succeeds    *)
(* and gives a spec with the same length and, for each class, the same     *)
(* min and max.                                                            *)
RoundTrip ==
    (origin = "builder" /\ parsed # None) =>
       /\ parsed.tag = "Ok"
       /\ parsed.val.length = spec.length
       /\ parsed.val.choices = spec.choices

(* C7. The trailing '//' after the final group is optional: for every      *)
(* well-formed spec text that ends in a group, parsing the text followed   *)
(* by '//' succeeds and gives the same spec as parsing the text.           *)
TrailingOptional ==
    (origin = "grammar" /\ parsed # None /\ parsed.tag = "Ok" /\ parsed2 # None) =>
       parsed2 = parsed

\* the place of the first "//" of a text, 0 if there is none
FirstSepAt(t) ==
    LET at == {k \in 1..(Len(t) - 1) : t[k] = "/" /\ t[k + 1] = "/"}
    IN IF at = {} THEN 0 ELSE CHOOSE k \in at : \A j \in at : k <= j

\* the segment before the first "//"
LengthSegment(t) == SubSeq(t, 1, FirstSepAt(t) - 1)

\* a non-empty run of the digits '0'..'9'
DecimalDigits(t) == Len(t) > 0 /\ \A k \in 1..Len(t) : t[k] \in AsciiDigits

(* C10, as claimed. A spec text whose segment before the first '//' is not *)
(* a decimal non-negative integer parses to the invalid-length error and   *)
(* to no spec, whatever follows the '//'.                                  *)
LengthRejected ==
    (/\ origin = "raw"
     /\ parsed # None
     /\ FirstSepAt(text) > 0
     /\ ~DecimalDigits(LengthSegment(text))) => parsed = Err("InvalidLength")

(* C10, amended. A spec text whose segment before the first '//', the      *)
(* leading whitespace of the text aside, is not an optional '+' followed   *)
(* by one or more of the digits '0'..'9' parses to the invalid-length      *)
(* error and to no spec, whatever follows the '//'.                        *)
LengthRejectedSigned ==
    (/\ origin = "raw"
     /\ parsed # None
     /\ FirstSepAt(trim_start(text)) > 0
     /\ LET seg == LengthSegment(trim_start(text))
        IN /\ ~DecimalDigits(seg)
           /\ ~(Len(seg) > 1 /\ seg[1] = "+" /\ DecimalDigits(Tail(seg))))
    => parsed = Err("InvalidLength")

\* a word for a length is refused although a well-formed group follows
LengthWitnessWord ==
    /\ origin = "raw"
    /\ text = <<"t", "w", "e", "n", "t", "y", "/", "/", "1", "+", "|">> \o UpperToken
    /\ parsed = Err("InvalidLength")

---------------------------------------------------------------------------
(* C6. After any sequence of include and per-class builder calls, and of   *)
(* constraint groups in a parsed text, the spec holds at most one          *)
(* constraint per distinct character class, and the min and max of that    *)
(* constraint are those of the most recent insertion for the class.        *)
OnePerClass ==
    origin = "build" =>
       /\ \A a, b \in spec.choices : a.chars = b.chars => a = b
       /\ {c.chars : c \in spec.choices} = DOMAIN last
       /\ \A c \in spec.choices :
             LET h == last[c.chars]
             IN Interval(c.min, c.max) = h[Len(h)]

\* a class was inserted twice, with different intervals
OnePerClassWitness ==
    /\ origin = "build"
    /\ \E class \in DOMAIN last :
          /\ Len(last[class]) >= 2
          /\ last[class][1] # last[class][2]

---------------------------------------------------------------------------
(* C11. The length segment is required: parsing any text without a length  *)
(* segment (no "LENGTH//" prefix), the empty string and a whitespace-only  *)
(* string included, returns a parse error and not a spec with a defaulted  *)
(* length.                                                                 *)
LengthRequired ==
    (origin = "bare" /\ parsed # None) => parsed.tag = "Err"

---------------------------------------------------------------------------
(* C12. Every Interval produced by new, exactly, at_least, at_most, safe   *)
(* or by parsing a text has min <= max: new(a, b) with a > b returns None, *)
(* without clamping or swapping, and safe(a, b) returns                    *)
(* [min(a,b), max(a,b)] for all a and b and never fails.                   *)
IntervalOrdered ==
    /\ (origin = "interval" /\ parsed # None /\ parsed.tag = "Ok")
          => parsed.val.min <= parsed.val.max
    /\ (origin = "construct" /\ res # <<>>) =>
          CASE res[1] = "new" ->
                 IF res[2] > res[3] THEN result = None
                 ELSE result = Some(Interval(res[2], res[3]))
            [] res[1] = "safe" ->
                 /\ result.min = (IF res[2] <= res[3] THEN res[2] ELSE res[3])
                 /\ result.max = (IF res[2] <= res[3] THEN res[3] ELSE res[2])
            [] res[1] = "at_least" -> result = Interval(res[2], UsizeMax)
            [] res[1] = "at_most" -> result = Interval(0, res[2])
            [] res[1] = "exactly" -> result = Interval(res[2], res[2])

\* new() was handed bounds in the wrong order and returned None
IntervalOrderedWitness ==
    /\ origin = "construct"
    /\ res = <<"new", 1, 0>>
    /\ result = None

---------------------------------------------------------------------------
\* the interval text C13 names for a constraint
CanonicalForm(c) ==
    IF c.min = c.max THEN ToDecimal(c.min)
    ELSE IF c.min = 0 THEN Append(ToDecimal(c.max), "-")
    ELSE IF c.max = UsizeMax THEN Append(ToDecimal(c.min), "+")
    ELSE ToDecimal(c.min) \o <<"-">> \o ToDecimal(c.max)

(* C13. Round trip of one constraint: for every constraint with min <= max *)
(* over a built-in class or a custom class without delimiter characters,   *)
(* parsing the displayed text succeeds and gives a constraint of the same  *)
(* class, min and max; the displayed interval is 'N' when min = max, else  *)
(* 'N-' when min is 0, else 'N+' when max is the unbounded sentinel, else  *)
(* 'A-B'.                                                                  *)
ChoiceRoundTrip ==
    /\ (origin = "choice" /\ pc = "text") =>
          LET bar == RFind(text, "|")
          IN /\ bar > 0
             /\ SubSeq(text, bar + 1, Len(text)) = CanonicalForm(cur.val)
    /\ (origin = "choice" /\ parsed # None) =>
          /\ parsed # Panic
          /\ parsed.tag = "Ok"
          /\ parsed.val.chars = cur.val.chars
          /\ parsed.val.min = cur.val.min
          /\ parsed.val.max = cur.val.max

\* an open-ended constraint over a built-in class went through display and parse
ChoiceRoundTripWitness ==
    /\ origin = "choice"
    /\ cur = Some(Choice(1, UsizeMax, Upper))
    /\ text = UpperToken \o <<"|", "1", "+">>
    /\ parsed = Ok(Choice(1, UsizeMax, Upper))

---------------------------------------------------------------------------
(* C14. Run with no arguments, the command-line tool uses the built-in     *)
(* default value of its spec option: that text parses successfully with    *)
(* the PasswordSpec parser and denotes the default spec (length 32, at     *)
(* least 1 each of Upper, Lower, Number, Symbol).                          *)
CliDefaultParses ==
    (origin = "cli" /\ parsed # None) => parsed = Ok(PasswordSpec_default)

---------------------------------------------------------------------------
\* the interval a spec holds for a class, None if it holds none
IntervalOf(s, class) ==
    IF \E c \in s.choices : c.chars = class
    THEN LET c == CHOOSE x \in s.choices : x.chars = class
         IN Some(Interval(c.min, c.max))
    ELSE None

\* the constraints of a spec for the classes other than the given ones
Others(s, classes) == {c \in s.choices : c.chars \notin classes}

\* the classes a builder step has inserted for
Touched == {c \in DOMAIN last' : c \notin DOMAIN last \/ last'[c] # last[c]}

\* one override step changes only what it names
OverrideFrame ==
    /\ (origin = "build" /\ text' = text) =>
          IF last' = last THEN spec'.choices = spec.choices
          ELSE /\ spec'.length = spec.length
               /\ Cardinality(Touched) = 1
               /\ Others(spec', Touched) = Others(spec, Touched)
    /\ origin = "cli" =>
          CASE pc = "length" -> spec'.choices = spec.choices
            [] pc = "upper" -> /\ spec'.length = spec.length
                               /\ Others(spec', {Upper}) = Others(spec, {Upper})
            [] pc = "lower" -> /\ spec'.length = spec.length
                               /\ Others(spec', {Lower}) = Others(spec, {Lower})
            [] pc = "number" -> /\ spec'.length = spec.length
                                /\ Others(spec', {Number}) = Others(spec, {Number})
            [] pc = "symbol" -> /\ spec'.length = spec.length
                                /\ Others(spec', {Symbol}) = Others(spec, {Symbol})
            [] pc = "custom" /\ iter' # iter ->
                 LET class == Custom(cur.custom[iter + 1][1])
                 IN /\ spec'.length = spec.length
                    /\ Others(spec', {class}) = Others(spec, {class})
            [] OTHER -> spec' = spec

\* the interval the command line leaves a class with
Overridden(class) ==
    LET base == parsed.val
        naming == {k \in 1..Len(cur.custom) : Custom(cur.custom[k][1]) = class}
    IN IF naming # {}
       THEN Some(cur.custom[CHOOSE k \in naming : \A j \in naming : j <= k][2])
       ELSE IF class = Upper /\ cur.upper # None THEN cur.upper
       ELSE IF class = Lower /\ cur.lower # None THEN cur.lower
       ELSE IF class = Number /\ cur.number # None THEN cur.number
       ELSE IF class = Symbol /\ cur.symbol # None THEN cur.symbol
       ELSE IntervalOf(base, class)

\* after all overrides each class has the interval of the last one naming it
OverrideFinal ==
    (origin = "cli" /\ pc = "overridden") =>
       /\ spec.length = (IF cur.length # None THEN cur.length.val ELSE parsed.val.length)
       /\ \A class \in {Upper, Lower, Number, Symbol}
                       \cup {Custom(v) : v \in CliCustomChars}
                       \cup {c.chars : c \in spec.choices \cup parsed.val.choices} :
             IntervalOf(spec, class) = Overridden(class)

(* C15. Overrides change only what they name: length(n) changes only the   *)
(* length; each per-class builder call and shorthand replaces only the     *)
(* constraint of its own class and leaves the length and the constraints   *)
(* of the other classes unchanged. After the CLI has applied its overrides *)
(* in the order length, upper, lower, number, symbol, then each custom in  *)
(* argument order, each class has the interval of the last override that   *)
(* names it, or that of the base spec when none names it.                  *)
OverridesNamed == []OverrideFinal /\ [][OverrideFrame]_vars

\* length, upper and two customs of one class were given and applied
OverridesWitness ==
    /\ origin = "cli"
    /\ pc = "overridden"
    /\ cur.length # None
    /\ cur.upper # None
    /\ Len(cur.custom) = 2
    /\ cur.custom[1][1] = cur.custom[2][1]
    /\ cur.custom[1][2] # cur.custom[2][2]
    /\ parsed.val = PasswordSpec_default

---------------------------------------------------------------------------
(* C16. During the fill phase of generate() on a spec that passed the      *)
(* feasibility check, the working pool of active constraints is never      *)
(* empty while characters remain to be added: at the start of each of the  *)
(* `remaining` iterations at least one constraint with max > 0 is in the   *)
(* pool, and every constraint in the pool is active.                       *)
PoolNeverEmpty ==
    (origin = "none" /\ pc = "fill" /\ iter < remaining) =>
       /\ Len(pool) > 0
       /\ \A k \in 1..Len(pool) : pool[k].max > 0

\* an exhausted constraint has left the pool and an iteration is still due
PoolWitness ==
    /\ origin = "none"
    /\ pc = "fill"
    /\ 0 < iter
    /\ iter < remaining
    /\ Len(pool) < Cardinality({c \in active : c.max > 0})

---------------------------------------------------------------------------
\* generate() has ended: it returned, or it aborted
Ended == pc \in {"done", "panic", "wrapped"}

(* C17. generate() terminates on every spec the public builder API can     *)
(* hold: as long as it has not ended some step of it changes the state,    *)
(* and for each constraint the loop that drains the required minimum ends  *)
(* with min = 0, also for a constraint whose min is greater than its max   *)
(* and for one whose max reaches 0 while min is still positive.            *)
GenerateTerminates ==
    origin = "any" =>
       /\ Ended \/ ENABLED <<generate>>_vars
       /\ \A c \in active : c.min = 0

(* C18. generate() never aborts: for every spec buildable through the      *)
(* builder API, one holding a custom class with an empty character list    *)
(* included, the subtraction of the required characters from the length    *)
(* never goes below zero and every draw from a constraint of the working   *)
(* pool yields a character, so the call ends with Some or None.            *)
GenerateNeverAborts ==
    origin = "any" => pc \notin {"panic", "wrapped"}

---------------------------------------------------------------------------
RECURSIVE MinsFit(_, _)
\* whether the mins of the constraints S add up to no more than budget
MinsFit(S, budget) ==
    IF S = {} THEN TRUE
    ELSE LET c == CHOOSE x \in S : TRUE
         IN c.min <= budget /\ MinsFit(S \ {c}, budget - c.min)

\* the open-ended constraints of a spec
OpenEnded(s) == {c \in s.choices : c.max = UsizeMax}

(* C19. The feasibility check sums the mins and the maxes of the           *)
(* constraints with saturation at the largest integer, never wrapping: a   *)
(* spec with two or more open-ended constraints is feasible for every      *)
(* length that is at least the sum of the mins, and a spec whose mins sum  *)
(* past the largest integer is feasible for no length below it.            *)
CheckSaturates ==
    (origin = "check" /\ pc = "checked") =>
       /\ (Cardinality(OpenEnded(spec)) >= 2 /\ MinsFit(spec.choices, spec.length))
             => result = Some(TRUE)
       /\ (~MinsFit(spec.choices, UsizeMax) /\ spec.length < UsizeMax)
             => result = Some(FALSE)

\* two open-ended constraints whose mins sum past usize::MAX were refused
CheckWitness ==
    /\ origin = "check"
    /\ pc = "checked"
    /\ Cardinality(OpenEnded(spec)) >= 2
    /\ ~MinsFit(spec.choices, UsizeMax)
    /\ spec.length = UsizeMax - 1
    /\ result = Some(FALSE)

---------------------------------------------------------------------------
(* C20. Building a constraint set from a list of constraints de-duplicates *)
(* by class with last-write-wins: when the list holds two constraints of   *)
(* the same character class, the set holds exactly one constraint for the  *)
(* class and its min and max are those of the later list element.          *)
FromVecLastWins ==
    (origin = "vec" /\ pc = "collected") =>
       /\ \A a, b \in active : a.chars = b.chars => a = b
       /\ {c.chars : c \in active} = DOMAIN last
       /\ \A c \in active :
             LET h == last[c.chars]
             IN Interval(c.min, c.max) = h[Len(h)]

=============================================================================
